---- MODULE Spec2Model ----
(***************************************************************************)
(* Model of mcc/finite_scan_with_trigger.py: main, wait_for_trigger and    *)
(* read_and_display_data.  The MCC 118 device and its SDK are the          *)
(* environment: every SDK call returns a nondeterministically chosen       *)
(* result (or raises), and the device's scan state moves only forward.     *)
(* main passes samples_per_channel = 10000 and num_channels = 4; the two   *)
(* functions are modelled for any values of their parameters, drawn at     *)
(* Init from small sets around multiples of the read request size.         *)
(***************************************************************************)
EXTENDS Integers, Sequences, FiniteSets

VARIABLES
    pc,                   \* position of main / the function it is in
    ending,               \* how the run ended ("none" while it runs)
    samples_per_channel,  \* parameter of read_and_display_data
    num_channels,         \* parameter of read_and_display_data
    is_running,           \* local of wait_for_trigger
    is_triggered,         \* local of wait_for_trigger
    total_samples_read,   \* local of read_and_display_data
    last,                 \* what the latest loop iteration read and displayed
    notice,               \* overrun notice printed, "none" if none
    cursor_cleaned,       \* the KeyboardInterrupt handler printed its sequence
    log,                  \* device operations issued, repeats collapsed
    reads,                \* a_in_scan_read calls issued (saturating)
    lines,                \* display lines printed (saturating)
    sum_floor,            \* history: sum of floor(len / num_channels)
    all_full,             \* history: every read so far was a full clean block
    scan                  \* device: "none", "active", or "complete" (the
                          \* scan has stopped and its buffer is read out)

vars == <<pc, ending, samples_per_channel, num_channels, is_running,
          is_triggered, total_samples_read, last, notice, cursor_cleaned,
          log, reads, lines, sum_floor, all_full, scan>>

(* ---------------------------- bounds ---------------------------------- *)

MaxBlocks == 2
MaxChannels == 4

\* counters saturate here; a run of full blocks needs at most MaxBlocks + 1
CountCap == MaxBlocks + 3

(* ------------------------ program constants --------------------------- *)

read_request_size == 500

Targets ==
    {t \in {k * read_request_size + d : k \in 0..MaxBlocks, d \in {-1, 0, 1}} :
        t >= 0}

Outcomes == {"ok", "HatError", "ValueError"}

\* samples per channel a read may deliver, and the stray samples after them
PerChannelCounts == {0, read_request_size - 1, read_request_size}

DataLens(nc) ==
    {n \in {q * nc + r : q \in PerChannelCounts, r \in {0, nc - 1}} :
        n <= read_request_size * nc}

NoRead ==
    [hardware_overrun |-> FALSE, buffer_overrun |-> FALSE, len |-> 0,
     measured |-> FALSE, samples_read_per_channel |-> 0, index |-> 0,
     group |-> <<>>, slept |-> FALSE]

(* --------------------------- pure helpers ----------------------------- *)

Bump(n) == IF n < CountCap THEN n + 1 ELSE n

Note(l, op) == IF l # <<>> /\ l[Len(l)] = op THEN l ELSE Append(l, op)

\* int(a / b) for a >= 0, b >= 1: the fraction of the quotient is dropped
IntQuotient(a, b) == (a - (a % b)) \div b

SamplesReadPerChannel_Ceiling(n, nc) == (n + nc - 1) \div nc

SamplesReadPerChannel(n, nc) == IntQuotient(n, nc)

LastGroupIndex_PastEnd(srpc, nc) == srpc * nc

LastGroupIndex(srpc, nc) == srpc * nc - nc

\* the indices data[index + i], i in range(num_channels)
GroupIndices(index, nc) == [i \in 1..nc |-> index + (i - 1)]

\* a Python list index is valid from -len to len - 1
Indexable(k, n) == -n <= k /\ k < n

Accumulate_Overwrite(total, srpc) == srpc

Accumulate(total, srpc) == total + srpc

LoopCondition_Inclusive(total, target) == total <= target

LoopCondition(total, target) == total < target

WaitCondition_RunningOnly(run, trig) == run

WaitCondition(run, trig) == run /\ ~trig

OverrunKind_BufferOnly(hw, buf) == IF buf THEN "Buffer overrun" ELSE "none"

OverrunKind_HardwareOnly(hw, buf) == IF hw THEN "Hardware overrun" ELSE "none"

OverrunKind(hw, buf) ==
    IF hw THEN "Hardware overrun"
    ELSE IF buf THEN "Buffer overrun"
    ELSE "none"

InterruptCleanup_StopsScan == <<"a_in_scan_stop">>

\* device operations the KeyboardInterrupt handler issues
InterruptCleanup == <<>>

After_SkipsWait(stage) ==
    CASE stage = "select" -> "open"
      [] stage = "open" -> "rate"
      [] stage = "rate" -> "trigger_mode"
      [] stage = "trigger_mode" -> "scan_start"
      [] stage = "scan_start" -> "header"
      [] stage = "wait_enter" -> "wait"
      [] stage = "wait" -> "header"
      [] stage = "header" -> "rd_test"
      [] OTHER -> "done"

\* the statement main runs after each of its steps returns
After(stage) ==
    CASE stage = "select" -> "open"
      [] stage = "open" -> "rate"
      [] stage = "rate" -> "trigger_mode"
      [] stage = "trigger_mode" -> "scan_start"
      [] stage = "scan_start" -> "wait_enter"
      [] stage = "wait_enter" -> "wait"
      [] stage = "wait" -> "header"
      [] stage = "header" -> "rd_test"
      [] OTHER -> "done"

SetupStages == {"select", "open", "rate", "trigger_mode", "scan_start"}
InnerStages == {"wait_enter", "wait", "header", "rd_test", "rd_read"}

(* ------------------------------- Init --------------------------------- *)

Init ==
    /\ pc = "select"
    /\ ending = "none"
    /\ samples_per_channel \in Targets
    /\ num_channels \in 1..MaxChannels
    /\ is_running = TRUE
    /\ is_triggered = FALSE
    /\ total_samples_read = 0
    /\ last = NoRead
    /\ notice = "none"
    /\ cursor_cleaned = FALSE
    /\ log = <<>>
    /\ reads = 0
    /\ lines = 0
    /\ sum_floor = 0
    /\ all_full = TRUE
    /\ scan = "none"

(* ------------------------------ main ---------------------------------- *)

Keep ==
    UNCHANGED <<samples_per_channel, num_channels, is_running, is_triggered,
                total_samples_read, last, notice, cursor_cleaned, reads,
                lines, sum_floor, all_full>>

\* one SDK call of the set-up part of main: it returns, or raises into the
\* outer handler, which prints the error and ends
SetupCall(stage, op) ==
    /\ pc = stage
    /\ log' = Note(log, op)
    /\ \E outcome \in Outcomes :
          IF outcome = "ok"
          THEN pc' = After(stage) /\ ending' = ending
          ELSE pc' = "done" /\ ending' = outcome

SelectDevice ==
    /\ SetupCall("select", "select_hat_device")
    /\ scan' = scan
    /\ Keep

OpenDevice ==
    /\ SetupCall("open", "mcc118")
    /\ scan' = scan
    /\ Keep

ActualRate ==
    /\ SetupCall("rate", "a_in_scan_actual_rate")
    /\ scan' = scan
    /\ Keep

SetTriggerMode ==
    /\ SetupCall("trigger_mode", "trigger_mode")
    /\ scan' = scan
    /\ Keep

StartScan ==
    /\ SetupCall("scan_start", "a_in_scan_start")
    /\ scan' = IF pc' = "done" THEN scan ELSE "active"
    /\ Keep

\* Ctrl-C outside the inner try: nothing in main catches it
InterruptUncaught ==
    /\ pc \in SetupStages
    /\ pc' = "done"
    /\ ending' = "uncaught_interrupt"
    /\ UNCHANGED <<log, scan>>
    /\ Keep

\* Ctrl-C inside the inner try
Interrupt ==
    /\ pc \in InnerStages
    /\ pc' = "done"
    /\ ending' = "interrupt"
    /\ cursor_cleaned' = TRUE
    /\ log' = log \o InterruptCleanup
    /\ UNCHANGED <<samples_per_channel, num_channels, is_running,
                   is_triggered, total_samples_read, last, notice, reads, lines, sum_floor, all_full, scan>>

PrintHeader ==
    /\ pc = "header"
    /\ pc' = After("header")
    /\ total_samples_read' = 0
    /\ UNCHANGED <<ending, samples_per_channel, num_channels, is_running,
                   is_triggered, last, notice, cursor_cleaned, log, reads, lines, sum_floor, all_full, scan>>

(* ------------------------- wait_for_trigger --------------------------- *)

WaitEnter ==
    /\ pc = "wait_enter"
    /\ pc' = After("wait_enter")
    /\ is_running' = TRUE
    /\ is_triggered' = FALSE
    /\ UNCHANGED <<ending, samples_per_channel, num_channels,
                   total_samples_read, last, notice, cursor_cleaned, log,
                   reads, lines, sum_floor, all_full, scan>>

\* one iteration: the status read is whatever the device reports
PollStatus ==
    /\ pc = "wait"
    /\ WaitCondition(is_running, is_triggered)
    /\ log' = Note(log, "a_in_scan_status")
    /\ \E outcome \in Outcomes, run \in BOOLEAN, trig \in BOOLEAN :
          /\ IF outcome = "ok"
             THEN /\ is_running' = run
                  /\ is_triggered' = trig
                  /\ pc' = pc
                  /\ ending' = ending
             ELSE /\ UNCHANGED <<is_running, is_triggered>>
                  /\ pc' = "done"
                  /\ ending' = outcome
    /\ UNCHANGED <<samples_per_channel, num_channels, total_samples_read,
                   last, notice, cursor_cleaned, reads, lines, sum_floor,
                   all_full, scan>>

WaitReturn ==
    /\ pc = "wait"
    /\ ~WaitCondition(is_running, is_triggered)
    /\ pc' = After("wait")
    /\ UNCHANGED <<ending, samples_per_channel, num_channels, is_running,
                   is_triggered, total_samples_read, last, notice,
                   cursor_cleaned, log, reads, lines, sum_floor,
                   all_full, scan>>

(* ----------------------- read_and_display_data ------------------------ *)

LoopContinue ==
    /\ pc = "rd_test"
    /\ LoopCondition(total_samples_read, samples_per_channel)
    /\ pc' = "rd_read"
    /\ UNCHANGED <<ending, samples_per_channel, num_channels, is_running,
                   is_triggered, total_samples_read, last, notice,
                   cursor_cleaned, log, reads, lines, sum_floor,
                   all_full, scan>>

LoopExit ==
    /\ pc = "rd_test"
    /\ ~LoopCondition(total_samples_read, samples_per_channel)
    /\ pc' = "done"
    /\ ending' = "target"
    /\ UNCHANGED <<samples_per_channel, num_channels, is_running,
                   is_triggered, total_samples_read, last, notice,
                   cursor_cleaned, log, reads, lines, sum_floor,
                   all_full, scan>>

\* the body of the loop for a read that returned hw, buf and n samples
Display(hw, buf, n) ==
    LET kind == OverrunKind(hw, buf)
        srpc == SamplesReadPerChannel(n, num_channels)
        index == LastGroupIndex(srpc, num_channels)
        group == GroupIndices(index, num_channels)
        fits == \A i \in 1..num_channels : Indexable(group[i], n)
    IN  IF kind # "none"
        THEN /\ notice' = kind
             /\ pc' = "done"
             /\ ending' = kind
             /\ last' = [NoRead EXCEPT !.hardware_overrun = hw,
                                       !.buffer_overrun = buf, !.len = n]
             /\ UNCHANGED <<total_samples_read, lines, sum_floor>>
        ELSE /\ notice' = notice
             /\ total_samples_read' = Accumulate(total_samples_read, srpc)
             /\ sum_floor' = sum_floor + (n \div num_channels)
             /\ lines' = Bump(lines)
             /\ IF srpc > 0
                THEN IF fits
                     THEN /\ pc' = "rd_test"
                          /\ ending' = ending
                          /\ last' = [hardware_overrun |-> hw,
                                      buffer_overrun |-> buf, len |-> n,
                                      measured |-> TRUE,
                                      samples_read_per_channel |-> srpc,
                                      index |-> index, group |-> group,
                                      slept |-> TRUE]
                     ELSE /\ pc' = "done"
                          /\ ending' = "IndexError"
                          /\ last' = [hardware_overrun |-> hw,
                                      buffer_overrun |-> buf, len |-> n,
                                      measured |-> TRUE,
                                      samples_read_per_channel |-> srpc,
                                      index |-> index, group |-> group,
                                      slept |-> FALSE]
                ELSE /\ pc' = "rd_test"
                     /\ ending' = ending
                     /\ last' = [hardware_overrun |-> hw,
                                 buffer_overrun |-> buf, len |-> n,
                                 measured |-> TRUE,
                                 samples_read_per_channel |-> srpc,
                                 index |-> 0, group |-> <<>>,
                                 slept |-> FALSE]

ReadBlock ==
    /\ pc = "rd_read"
    /\ log' = Note(log, "a_in_scan_read")
    /\ reads' = Bump(reads)
    /\ \E outcome \in Outcomes, sc \in {"active", "complete"},
          hw \in BOOLEAN, buf \in BOOLEAN, n \in DataLens(num_channels) :
          /\ scan = "complete" => sc = "complete"
          /\ sc = "complete" => n = 0
          /\ scan' = sc
          /\ IF outcome = "ok"
             THEN /\ Display(hw, buf, n)
                  /\ all_full' = (all_full /\ ~hw /\ ~buf
                                  /\ n = read_request_size * num_channels)
             ELSE /\ pc' = "done"
                  /\ ending' = outcome
                  /\ UNCHANGED <<total_samples_read, last, notice, lines,
                                 sum_floor, all_full>>
    /\ UNCHANGED <<samples_per_channel, num_channels, is_running,
                   is_triggered, cursor_cleaned>>

(* --------------------------- specification ---------------------------- *)

Program ==
    \/ SelectDevice
    \/ OpenDevice
    \/ ActualRate
    \/ SetTriggerMode
    \/ StartScan
    \/ WaitEnter
    \/ PollStatus
    \/ WaitReturn
    \/ PrintHeader
    \/ LoopContinue
    \/ LoopExit
    \/ ReadBlock

Next ==
    \/ SelectDevice
    \/ OpenDevice
    \/ ActualRate
    \/ SetTriggerMode
    \/ StartScan
    \/ WaitEnter
    \/ PollStatus
    \/ WaitReturn
    \/ PrintHeader
    \/ LoopContinue
    \/ LoopExit
    \/ ReadBlock
    \/ Interrupt
    \/ InterruptUncaught

Spec == Init /\ [][Next]_vars

\* the interpreter always runs the next statement and every SDK call
\* returns (the read after its timeout); nothing makes a Ctrl-C arrive
LiveSpec == Init /\ [][Next]_vars /\ WF_vars(Program)

TypeOK ==
    /\ pc \in SetupStages \cup InnerStages \cup {"done"}
    /\ total_samples_read \in Nat
    /\ reads \in 0..CountCap
    /\ lines \in 0..CountCap

(* ----------------------------- properties ----------------------------- *)

Errors == {"HatError", "ValueError"}

MainOrder ==
    <<"select_hat_device", "mcc118", "a_in_scan_actual_rate", "trigger_mode",
      "a_in_scan_start", "a_in_scan_status", "a_in_scan_read">>

IsPrefix(s, t) == Len(s) <= Len(t) /\ \A i \in 1..Len(s) : s[i] = t[i]

CeilBlocks(t) == (t + read_request_size - 1) \div read_request_size

\* a step of the read loop's body that got a result back from the device
ReadReturned == pc = "rd_read" /\ reads' # reads /\ ending' \notin Errors

\* nothing happens once the run has ended
Ended == pc = "done" => UNCHANGED vars

\* C1: a read result with hardware_overrun set, whatever buffer_overrun and
\* data are, stops the loop at once: the "Hardware overrun" notice is
\* printed, data is neither measured nor indexed, total_samples_read and the
\* display are left as they were, and no further read is issued.
C1_HardwareOverrunStops ==
    [][/\ (pc = "rd_read" /\ last'.hardware_overrun)
            => /\ pc' = "done"
               /\ ending' = "Hardware overrun"
               /\ notice' = "Hardware overrun"
               /\ ~last'.measured
               /\ last'.group = <<>>
               /\ total_samples_read' = total_samples_read
               /\ lines' = lines
       /\ (last.hardware_overrun => reads' = reads /\ pc' = "done")]_vars

C1_Witness ==
    /\ ending = "Hardware overrun"
    /\ last.hardware_overrun
    /\ last.buffer_overrun
    /\ last.len = read_request_size * num_channels
    /\ total_samples_read > 0

\* C2: a read result with buffer_overrun set and hardware_overrun clear stops
\* the loop the same way, with the "Buffer overrun" notice.
C2_BufferOverrunStops ==
    [][/\ (pc = "rd_read" /\ last'.buffer_overrun /\ ~last'.hardware_overrun)
            => /\ pc' = "done"
               /\ ending' = "Buffer overrun"
               /\ notice' = "Buffer overrun"
               /\ ~last'.measured
               /\ last'.group = <<>>
               /\ total_samples_read' = total_samples_read
               /\ lines' = lines
       /\ (last.buffer_overrun => reads' = reads /\ pc' = "done")]_vars

C2_Witness ==
    /\ ending = "Buffer overrun"
    /\ last.buffer_overrun
    /\ ~last.hardware_overrun
    /\ last.len = read_request_size * num_channels
    /\ total_samples_read > 0

\* C3: the loop test issues a read exactly when the running total is below
\* samples_per_channel and leaves the loop exactly when it is not, and at
\* that exit the total is less than samples_per_channel + read_request_size.
C3_LoopStopsAtTarget ==
    [][/\ (pc = "rd_test" /\ ending' # "interrupt")
            => /\ (pc' = "rd_read") = (total_samples_read < samples_per_channel)
               /\ (ending' = "target")
                     = (total_samples_read >= samples_per_channel)
       /\ ending' = "target"
            => /\ total_samples_read' >= samples_per_channel
               /\ total_samples_read'
                     < samples_per_channel + read_request_size]_vars

C3_Witness ==
    /\ ending = "target"
    /\ reads > 1
    /\ total_samples_read = samples_per_channel + read_request_size - 1

\* C4: wait_for_trigger returns only after at least one status poll and only
\* on a status with triggered set or running clear; once such a status has
\* been polled (triggered set even with running set, or running clear) the
\* next step is the return and no further poll is made; and while every
\* status polled had running set and triggered clear it does not return.
C4_WaitForTrigger ==
    [][/\ (pc = "wait" /\ pc' = "header")
            => /\ log[Len(log)] = "a_in_scan_status"
               /\ (is_triggered \/ ~is_running)
       /\ (pc = "wait" /\ (is_triggered \/ ~is_running))
            => /\ pc' \in {"header", "done"}
               /\ UNCHANGED <<is_running, is_triggered, log>>
       /\ (pc = "wait" /\ is_running /\ ~is_triggered) => pc' # "header"]_vars

C4_Witness == pc = "header" /\ is_running /\ is_triggered

\* C5: after a read without overrun, samples_read_per_channel is
\* floor(len(data) / num_channels); when it is positive the group printed is
\* data[index .. index + num_channels - 1] with
\* index = samples_read_per_channel * num_channels - num_channels, the last
\* complete group, inside data; 4 channels and 2000 samples give 500 and
\* data[1996:2000].
C5_LastGroup ==
    /\ ending # "IndexError"
    /\ last.measured =>
         /\ last.samples_read_per_channel = last.len \div num_channels
         /\ last.samples_read_per_channel > 0 =>
              /\ last.index = (last.len \div num_channels - 1) * num_channels
              /\ Len(last.group) = num_channels
              /\ \A i \in 1..num_channels :
                    /\ last.group[i] = last.index + i - 1
                    /\ 0 <= last.group[i]
                    /\ last.group[i] < last.len
              /\ (last.group[num_channels] + 1) % num_channels = 0
              /\ last.len - (last.group[num_channels] + 1) < num_channels
         /\ (num_channels = 4 /\ last.len = 2000) =>
              /\ last.samples_read_per_channel = 500
              /\ last.group = <<1996, 1997, 1998, 1999>>

C5_Witness ==
    /\ num_channels = 4
    /\ last.measured
    /\ last.len = 2000
    /\ last.group = <<1996, 1997, 1998, 1999>>

\* C6: while every read is a clean block of exactly read_request_size samples
\* per channel, the loop with target T makes at most ceil(T / 500) reads,
\* prints one display line per read, has to stop once it made that many, and
\* when it has exited it made exactly that many; T = 1000 gives two.
C6_FullBlocks ==
    (all_full /\ ending \in {"none", "target"}) =>
        /\ reads <= CeilBlocks(samples_per_channel)
        /\ lines = reads
        /\ total_samples_read = reads * read_request_size
        /\ (pc = "rd_test" /\ reads = CeilBlocks(samples_per_channel))
              => total_samples_read >= samples_per_channel
        /\ pc = "rd_read" => reads < CeilBlocks(samples_per_channel)
        /\ ending = "target" => reads = CeilBlocks(samples_per_channel)
        /\ (ending = "target" /\ samples_per_channel = 1000)
              => reads = 2 /\ lines = 2

C6_Witness ==
    /\ all_full
    /\ ending = "target"
    /\ samples_per_channel = 1000
    /\ num_channels = 4
    /\ reads = 2
    /\ lines = 2

\* C7: once the device's scan has completed (it has stopped and delivers no
\* more samples) the read loop eventually exits.
C7_LoopExitsAfterScanCompletes == (scan = "complete") ~> (pc = "done")

\* C8: main issues the device operations in the one order select, open,
\* actual rate, trigger mode, scan start, status polls, reads; a read is
\* issued only after a_in_scan_start and wait_for_trigger have returned; and
\* a HatError or ValueError ends the run at once with nothing after it.
C8_FixedOrder ==
    /\ [](/\ IsPrefix(log, MainOrder)
          /\ pc = "rd_read" => (Len(log) >= 6 /\ (is_triggered \/ ~is_running))
          /\ ending \in Errors => pc = "done")
    /\ [][/\ Ended
          /\ ending' \in Errors => (Len(log') <= Len(log) + 1)]_vars

C8_Witness == pc = "rd_read" /\ log = MainOrder /\ reads > 1

\* C9: a KeyboardInterrupt during wait_for_trigger or read_and_display_data
\* is caught by main, which prints the cursor clean-up and ends; it issues
\* no device operation, nothing is polled or read afterwards, and no run
\* ever sends the device a stop or clean-up operation.
C9_InterruptOnlyCleansCursor ==
    /\ [](/\ \A i \in 1..Len(log) : \E j \in 1..Len(MainOrder) : log[i] = MainOrder[j]
          /\ ending = "interrupt" => (pc = "done" /\ cursor_cleaned)
          /\ cursor_cleaned => ending = "interrupt")
    /\ [][/\ Ended
          /\ (pc \in InnerStages /\ ending' = "interrupt")
                => UNCHANGED <<log, reads, lines, scan, total_samples_read>>]_vars

C9_Witness ==
    /\ ending = "interrupt"
    /\ cursor_cleaned
    /\ scan = "active"
    /\ reads > 0
    /\ total_samples_read < samples_per_channel

\* C10: total_samples_read is the sum of floor(len(data) / num_channels) over
\* the reads without overrun, is 0 when the loop starts, never decreases and
\* is below samples_per_channel when a read is issued; a read without
\* overrun of fewer than num_channels samples leaves it unchanged, prints the
\* counts without voltages, does not sleep, and the loop reads again.
C10_RunningTotal ==
    /\ [](/\ total_samples_read = sum_floor
          /\ (pc = "rd_test" /\ reads = 0) => total_samples_read = 0
          /\ pc = "rd_read" => total_samples_read < samples_per_channel)
    /\ [][/\ total_samples_read' >= total_samples_read
          /\ (ReadReturned /\ last'.measured /\ last'.len < num_channels)
                => /\ total_samples_read' = total_samples_read
                   /\ lines' = Bump(lines)
                   /\ last'.group = <<>>
                   /\ ~last'.slept
                   /\ pc' = "rd_test"
                   /\ total_samples_read' < samples_per_channel]_vars

C10_Witness ==
    /\ pc = "rd_test"
    /\ num_channels > 1
    /\ last.measured
    /\ last.len = num_channels - 1
    /\ total_samples_read > 0
    /\ lines > 1

====
